---- MODULE Spec2Model ----
(***************************************************************************)
(* Item-item collaborative filtering model (src/src/cf_model.py) and the   *)
(* trio recommender built on it (src/src/recommender.py).                  *)
(*                                                                         *)
(* Representation.                                                         *)
(*  - Names are strings; Python's sorted() on them is modelled by the      *)
(*    explicit order NameOrder.                                            *)
(*  - A Python list is a sequence, a dict is a function, a numpy matrix of *)
(*    shape (n,n) is a function [0..n-1 -> [0..n-1 -> Int]].               *)
(*  - A float64 value v is the integer floor(v * Scale) (fixed point);     *)
(*    composite scores carry the scale 10 * Scale.                         *)
(*  - None is the empty function.                                          *)
(***************************************************************************)
EXTENDS Integers, Sequences, FiniteSets, TLC

\* ------------------------------------------------------------------ bounds

\* Fixed-point scale standing for the float64 entries of the matrices.
Scale == 1000

\* Longest training corpus (number of teams) drawn for a build.
MaxTeams == 3

\* ------------------------------------------------------------- small helpers

Min(a, b) == IF a <= b THEN a ELSE b

Max(a, b) == IF a >= b THEN a ELSE b

Range(s) == {s[k] : k \in DOMAIN s}

RECURSIVE SumSeq(_)
SumSeq(s) == IF s = <<>> THEN 0 ELSE Head(s) + SumSeq(Tail(s))

\* Sum of f[k] for k in lo..hi.
RECURSIVE SumFn(_, _, _)
SumFn(f, lo, hi) == IF lo > hi THEN 0 ELSE f[lo] + SumFn(f, lo + 1, hi)

\* floor(sqrt(x)) by bisection on lo..hi, lo*lo <= x < (hi+1)*(hi+1).
RECURSIVE IsqrtIn(_, _, _)
IsqrtIn(x, lo, hi) ==
    IF lo >= hi THEN lo
    ELSE LET mid == (lo + hi + 1) \div 2
         IN  IF mid <= x \div mid THEN IsqrtIn(x, mid, hi)
                                  ELSE IsqrtIn(x, lo, mid - 1)

Isqrt(x) == IF x <= 0 THEN 0 ELSE IsqrtIn(x, 1, x)

\* A list or an array held in memory: f itself. (TLC keeps a function
\* constructor unevaluated and recomputes an entry at every application;
\* comparing the function makes it compute the entries once.)
Array(f) == IF f = f THEN f ELSE f

\* Python None.
None == << >>

\* ------------------------------------------------------------------- names

\* The order Python's sorted() gives the names used here.
NameOrder ==
    <<"A", "B", "C", "D", "E", "F",
      "P01", "P02", "P03", "P04", "P05", "P06", "P07", "P08", "P09", "P10", "P11",
      "P12", "P13", "P14", "P15", "P16", "P17", "P18", "P19",
      "X", "Y">>

NameRank(p) == CHOOSE k \in DOMAIN NameOrder : NameOrder[k] = p

\* sorted(S) for a set of names.
RECURSIVE SortedNames(_)
SortedNames(S) ==
    IF S = {} THEN <<>>
    ELSE LET m == CHOOSE p \in S : \A q \in S : NameRank(p) <= NameRank(q)
         IN  <<m>> \o SortedNames(S \ {m})

\* ----------------------------------------------------- build_from_teams

\* all_pokemon = sorted(set(p for team in teams for p in team))
AllPokemon(teams) ==
    SortedNames(UNION {Range(teams[t]) : t \in DOMAIN teams})

\* pokemon_to_idx = {p: i for i, p in enumerate(all_pokemon)}
PokemonToIdx(all) ==
    [p \in Range(all) |-> (CHOOSE k \in DOMAIN all : all[k] = p) - 1]

\* idx_to_pokemon = {i: p for p, i in pokemon_to_idx.items()}
IdxToPokemon(p2i) ==
    [i \in {p2i[p] : p \in DOMAIN p2i} |-> CHOOSE p \in DOMAIN p2i : p2i[p] = i]

\* np.zeros((n, n))
Zeros(n) == [i \in 0..(n - 1) |-> [j \in 0..(n - 1) |-> 0]]

\* The team's catalog indices, position by position (line 44).
TeamIndices(team, p2i) == [k \in DOMAIN team |-> p2i[team[k]]]

\* Mutant of AddIndices: only the cells above the diagonal are incremented.
AddIndicesUpper(m, indices) ==
    [i \in DOMAIN m |-> [j \in DOMAIN m |->
        m[i][j] + Cardinality({pr \in (DOMAIN indices) \X (DOMAIN indices) :
                                  /\ indices[pr[1]] = i
                                  /\ indices[pr[2]] = j
                                  /\ i < j})]]

\* The double loop of lines 45-48: for i in indices: for j in indices:
\* if i != j: m[i][j] += 1.
AddIndices(m, indices) ==
    [i \in DOMAIN m |-> [j \in DOMAIN m |->
        m[i][j] + Cardinality({pr \in (DOMAIN indices) \X (DOMAIN indices) :
                                  /\ indices[pr[1]] = i
                                  /\ indices[pr[2]] = j
                                  /\ i # j})]]

\* One team's pass of the loop of lines 42-48.
AddTeam(m, team, p2i) == Array(AddIndices(Array(m), Array(TeamIndices(team, p2i))))

\* The loop over teams, starting from matrix m (a matrix of no cells stays
\* as it is: the teams of an empty catalog have no member to count).
RECURSIVE AddTeams(_, _, _)
AddTeams(m, teams, p2i) ==
    IF Array(m) = << >> \/ teams = <<>> THEN m
    ELSE AddTeams(AddTeam(m, Head(teams), p2i), Tail(teams), p2i)

CoOccurrence(teams, p2i, n) == AddTeams(Zeros(n), teams, p2i)

\* row_sums = m.sum(axis=1); row_sums[row_sums == 0] = 1
RowSums(m) ==
    [i \in DOMAIN m |->
        LET s == SumFn(m[i], 0, Cardinality(DOMAIN m) - 1)
        IN  IF s = 0 THEN 1 ELSE s]

\* m / row_sums, row by row.
DivideRows(m, rs) ==
    [i \in DOMAIN m |-> [j \in DOMAIN m |-> (m[i][j] * Scale) \div rs[i]]]

\* normalized_matrix = co_occurrence_matrix / row_sums
Normalized(m) == Array(DivideRows(Array(m), Array(RowSums(m))))

\* The L2 norm of every row of x, 1 for a row of norm 0.
RowNorms(x) ==
    [i \in DOMAIN x |->
        LET l == Isqrt(SumFn([k \in DOMAIN x |-> x[i][k] * x[i][k]], 0,
                             Cardinality(DOMAIN x) - 1))
        IN  IF l = 0 THEN 1 ELSE l]

\* x . x^T
DotRows(x) ==
    [i \in DOMAIN x |-> [j \in DOMAIN x |->
        SumFn([k \in DOMAIN x |-> x[i][k] * x[j][k]], 0, Cardinality(DOMAIN x) - 1)
            \div Scale]]

\* sklearn's cosine_similarity(X): every row is scaled to unit L2 norm (a
\* row of norm 0 is left as it is) and the result is X_unit . X_unit^T.
CosineSimilarity(x) ==
    Array(DotRows(Array(DivideRows(Array(x), Array(RowNorms(x))))))

\* Mutant of FillDiagonal: the diagonal is left as computed.
KeepDiagonal(m) == m

\* np.fill_diagonal(m, 0)
FillDiagonal(m) ==
    [i \in DOMAIN m |-> [j \in DOMAIN m |-> IF i = j THEN 0 ELSE m[i][j]]]

\* Mutant of Similarity: the co-occurrence counts are used as similarities.
SimilarityFromCounts(co) ==
    FillDiagonal([i \in DOMAIN co |-> [j \in DOMAIN co |-> co[i][j] * Scale]])

\* Mutant of Similarity: the row-normalised counts are used as similarities.
SimilarityFromNormalized(co) == FillDiagonal(Normalized(co))

\* similarity_matrix after lines 50-61.
Similarity(co) == FillDiagonal(CosineSimilarity(Normalized(co)))

\* The five fields build_from_teams leaves behind.
Built(teams) ==
    LET all == AllPokemon(teams)
        p2i == PokemonToIdx(all)
        co  == CoOccurrence(teams, p2i, Len(all))
    IN  [n_pokemon            |-> Len(all),
         pokemon_to_idx       |-> p2i,
         idx_to_pokemon       |-> IdxToPokemon(p2i),
         co_occurrence_matrix |-> co,
         similarity_matrix    |-> Similarity(co)]

\* ------------------------------------------------------ get_recommendations

\* candidate_names: [name for name, _ in candidates]
NamesOf(candidates) == [k \in DOMAIN candidates |-> candidates[k][1]]

\* input_indices: the catalog indices of the input names that are in
\* pokemon_to_idx, in input order (lines 87-92).
InputIndices(m, input_pokemon) ==
    LET known == SelectSeq(input_pokemon, LAMBDA p : p \in DOMAIN m.pokemon_to_idx)
    IN  [k \in DOMAIN known |-> m.pokemon_to_idx[known[k]]]

\* Mutant of AggregateScores: the sums are not divided.
AggregateSums(m, input_indices) ==
    Array([c \in 0..(m.n_pokemon - 1) |->
        SumSeq([k \in DOMAIN input_indices |-> m.similarity_matrix[input_indices[k]][c]])])

\* aggregate_scores: the sum of the similarity rows of input_indices, divided
\* by their number (lines 99-105).
AggregateScores(m, input_indices) ==
    Array([c \in 0..(m.n_pokemon - 1) |->
        SumSeq([k \in DOMAIN input_indices |-> m.similarity_matrix[input_indices[k]][c]])
            \div Len(input_indices)])

\* np.argsort(-scores) over the indices S: every order of the indices with
\* non-increasing score. The default sort kind is not stable, so indices
\* with equal score may come in any order.
RECURSIVE ArgsortDesc(_, _)
ArgsortDesc(scores, S) ==
    IF S = {} THEN {<<>>}
    ELSE LET top == {i \in S : \A j \in S : scores[i] >= scores[j]}
         IN  UNION {{<<i>> \o r : r \in ArgsortDesc(scores, S \ {i})} : i \in top}

\* Mutant of Excluded: the exclusion test is dropped.
NeverExcluded(pokemon, exclude_set) == FALSE

\* The test of line 112.
Excluded(pokemon, exclude_set) == pokemon \in exclude_set

\* Mutant of LoopDone: the loop stops one entry late.
LoopDoneLate(recommendations, top_k) == Len(recommendations) > top_k

\* The test of line 116, made after an append.
LoopDone(recommendations, top_k) == Len(recommendations) >= top_k

\* The loop of lines 109-117 over the rest of the argsort order.
RECURSIVE RecLoop(_, _, _, _, _, _)
RecLoop(m, scores, order, exclude_set, top_k, recommendations) ==
    IF order = <<>> THEN recommendations
    ELSE LET idx     == Head(order)
             pokemon == m.idx_to_pokemon[idx]
         IN  IF Excluded(pokemon, exclude_set)
             THEN RecLoop(m, scores, Tail(order), exclude_set, top_k, recommendations)
             ELSE LET next == Append(recommendations, <<pokemon, scores[idx]>>)
                  IN  IF LoopDone(next, top_k) THEN next
                      ELSE RecLoop(m, scores, Tail(order), exclude_set, top_k, next)

\* get_recommendations: the set of lists of (name, score) it can return.
GetRecommendations(m, input_pokemon, top_k, exclude) ==
    LET exclude_set   == Range(input_pokemon) \cup Range(exclude)
        input_indices == InputIndices(m, input_pokemon)
    IN  IF input_indices = <<>> THEN {<<>>}
        ELSE LET scores == AggregateScores(m, input_indices)
             IN  {RecLoop(m, scores, order, exclude_set, top_k, <<>>) :
                     order \in ArgsortDesc(scores, 0..(m.n_pokemon - 1))}

\* Mutant of get_team_score: the divisor counts the pairs of all the
\* members of the team, the unresolved ones included.
team_score_over_all_pairs(m, team) ==
    LET indices == InputIndices(m, team)
        n       == Len(indices)
        total   == SumSeq([k \in 1..n |->
                      SumSeq([l \in 1..n |->
                          IF k < l THEN m.similarity_matrix[indices[k]][indices[l]]
                          ELSE 0])])
    IN  IF n < 2 THEN 0
        ELSE total \div ((Len(team) * (Len(team) - 1)) \div 2)

\* ----------------------------------------------------------- get_team_score

get_team_score(m, team) ==
    LET indices == InputIndices(m, team)
        n       == Len(indices)
        pairs   == {pr \in (1..n) \X (1..n) : pr[1] < pr[2]}
        sims    == [pr \in pairs |-> m.similarity_matrix[indices[pr[1]]][indices[pr[2]]]]
        RECURSIVE Total(_)
        Total(P) == IF P = {} THEN 0
                    ELSE LET pr == CHOOSE q \in P : TRUE
                         IN  sims[pr] + Total(P \ {pr})
    IN  IF n < 2 THEN 0
        ELSE Total(pairs) \div Cardinality(pairs)

\* ------------------------------------------------------------------ recommend

\* Mutant of composite_score: the two weights are swapped.
composite_swapped(rec) == 3 * rec.cf_score + 7 * rec.team_cohesion

\* Recommendation.composite_score, at scale 10 * Scale.
composite_score(rec) == 7 * rec.cf_score + 3 * rec.team_cohesion

\* itertools.combinations(s, r), in the order it yields them.
RECURSIVE Combinations(_, _)
Combinations(s, r) ==
    IF r = 0 THEN << <<>> >>
    ELSE IF Len(s) < r THEN <<>>
    ELSE LET with == Combinations(Tail(s), r - 1)
         IN  Array([k \in DOMAIN with |-> <<Head(s)>> \o with[k]])
                \o Combinations(Tail(s), r)

\* Mutant of CfScore: a candidate's similarities are divided by the length
\* of the input team, the members outside the catalog counting as 0.
CfScoreOverInput(m, input_team, trio) ==
    LET Sims(mon) ==
            [k \in DOMAIN input_team |->
                IF mon \in DOMAIN m.pokemon_to_idx /\ input_team[k] \in DOMAIN m.pokemon_to_idx
                THEN m.similarity_matrix[m.pokemon_to_idx[mon]][m.pokemon_to_idx[input_team[k]]]
                ELSE 0]
        trio_scores == [k \in DOMAIN trio |-> SumSeq(Sims(trio[k])) \div Len(input_team)]
    IN  IF trio_scores = <<>> THEN 0
        ELSE SumSeq(trio_scores) \div Len(trio_scores)

\* cf_score of one trio (lines 72-86).
CfScore(m, input_team, trio) ==
    LET Sims(mon) ==
            LET ins == SelectSeq(input_team, LAMBDA im :
                          mon \in DOMAIN m.pokemon_to_idx /\ im \in DOMAIN m.pokemon_to_idx)
            IN  [k \in DOMAIN ins |->
                    m.similarity_matrix[m.pokemon_to_idx[mon]][m.pokemon_to_idx[ins[k]]]]
        scored      == SelectSeq(trio, LAMBDA mon : Sims(mon) # <<>>)
        trio_scores == [k \in DOMAIN scored |->
                           SumSeq(Sims(scored[k])) \div Len(Sims(scored[k]))]
    IN  IF trio_scores = <<>> THEN 0
        ELSE SumSeq(trio_scores) \div Len(trio_scores)

\* The Recommendation built for one trio (lines 69-95).
Evaluate(m, input_team, trio) ==
    [trio          |-> trio,
     cf_score      |-> CfScore(m, input_team, trio),
     team_cohesion |-> get_team_score(m, input_team \o trio)]

\* Mutant of Precedes: equal keys change places (the sort is not stable).
PrecedesUnstable(ka, a, kb, b) == ka > kb \/ (ka = kb /\ a > b)

\* Whether list.sort(key=composite_score, reverse=True) puts the element at
\* position a, of key ka, before the one at position b, of key kb: larger
\* keys first, equal keys in their order in the list (the sort is stable).
Precedes(ka, a, kb, b) == ka > kb \/ (ka = kb /\ a < b)

\* The sort keys of the records.
SortKeys(recs) == [i \in DOMAIN recs |-> composite_score(recs[i])]

\* The position each record moves to: after the records that precede it.
SortRanks(key) ==
    [i \in DOMAIN key |->
        1 + Cardinality({j \in DOMAIN key : Precedes(key[j], j, key[i], i)})]

\* The records in the order of their ranks.
Reorder(recs, rank) ==
    [r \in DOMAIN recs |-> recs[CHOOSE i \in DOMAIN recs : rank[i] = r]]

\* recommendations.sort(key=lambda x: x.composite_score, reverse=True)
SortRecs(recs) == Array(Reorder(Array(recs), Array(SortRanks(Array(SortKeys(recs))))))

\* s[:k]
PySlice(s, k) ==
    IF k >= 0 THEN SubSeq(s, 1, Min(k, Len(s)))
    ELSE SubSeq(s, 1, Max(Len(s) + k, 0))

\* Mutant of ValidInput: only too short an input is rejected.
ValidInputLoose(input_team) == Len(input_team) >= 3

\* The length test of line 53.
ValidInput(input_team) == Len(input_team) = 3

\* The loop of lines 68-96 over the trios.
EvaluateAll(m, input_team, trios) ==
    Array([k \in DOMAIN trios |-> Evaluate(m, input_team, trios[k])])

\* Lines 63-101 for one candidate list.
RankTrios(m, input_team, top_k, candidates) ==
    PySlice(SortRecs(EvaluateAll(m, input_team,
                Array(Combinations(NamesOf(candidates), 3)))), top_k)

\* The names get_recommendations prints a warning for (lines 88-92): the
\* input names that are not in pokemon_to_idx, in input order.
Warnings(m, input_pokemon) ==
    SelectSeq(input_pokemon, LAMBDA p : p \notin DOMAIN m.pokemon_to_idx)

\* The caller's list input_pokemon after line 84: input_pokemon + exclude
\* is a new list, the two operands are left as they are.
InputLeft(input_pokemon, exclude) == input_pokemon

\* Mutant of MatrixAfterAggregate: the first input's row of the matrix is
\* the accumulator, so the sums and the division are made in place.
MatrixAggregatedInPlace(m, input_indices) ==
    IF input_indices = <<>> THEN m.similarity_matrix
    ELSE [m.similarity_matrix EXCEPT
             ![input_indices[1]] = AggregateScores(m, input_indices)]

\* self.similarity_matrix after lines 99-105: the rows are added into a new
\* array of zeros, which is then divided; the matrix is only read.
MatrixAfterAggregate(m, input_indices) == m.similarity_matrix

\* get_similar_pokemon: the set of lists of (name, similarity) it can
\* return (lines 155-167).
GetSimilarPokemon(m, pokemon, top_k) ==
    IF pokemon \notin DOMAIN m.pokemon_to_idx THEN {<<>>}
    ELSE LET similarities == m.similarity_matrix[m.pokemon_to_idx[pokemon]]
         IN  {[k \in DOMAIN PySlice(order, top_k) |->
                  <<m.idx_to_pokemon[order[k]], similarities[order[k]]>>] :
                 order \in ArgsortDesc(similarities, 0..(m.n_pokemon - 1))}

\* ---------------------------------------------------------------- save / load

\* The text json.dump writes for an int key of a dict: its decimal digits.
Decimal ==
    <<"0", "1", "2", "3", "4", "5", "6", "7", "8", "9", "10", "11", "12", "13",
      "14", "15", "16", "17", "18", "19", "20", "21", "22", "23", "24", "25", "26">>

JsonKey(i) == Decimal[i + 1]

\* int(k) for the text of a key.
PyInt(k) == (CHOOSE d \in DOMAIN Decimal : Decimal[d] = k) - 1

\* Mutant of JsonFloat: a float is written with one digit less.
JsonFloatShort(v) == (v \div 10) * 10

\* The float json.load reads back from what json.dump wrote for v: the text
\* is float.__repr__(v), the shortest one that reads back as v.
JsonFloat(v) == v

\* ndarray.tolist() of a square matrix, as json.dump writes it.
ToList(a) ==
    LET n == Cardinality(DOMAIN a)
    IN  [i \in 1..n |-> [j \in 1..n |-> JsonFloat(a[i - 1][j - 1])]]

\* np.array(l) of a list of rows.
FromList(l) ==
    [i \in 0..(Len(l) - 1) |-> [j \in 0..(Len(l[i + 1]) - 1) |-> l[i + 1][j + 1]]]

\* The document save writes (lines 171-180): the keys of idx_to_pokemon
\* become text.
JsonDocument(m) ==
    [pokemon_to_idx       |-> m.pokemon_to_idx,
     idx_to_pokemon       |-> [k \in {JsonKey(i) : i \in DOMAIN m.idx_to_pokemon} |->
                                  m.idx_to_pokemon[PyInt(k)]],
     co_occurrence_matrix |-> ToList(m.co_occurrence_matrix),
     similarity_matrix    |-> ToList(m.similarity_matrix),
     n_pokemon            |-> m.n_pokemon]

\* The fields load reads from the document, in the order of lines 189-193.
LoadOrder ==
    <<"pokemon_to_idx", "idx_to_pokemon", "co_occurrence_matrix",
      "similarity_matrix", "n_pokemon">>

\* How many of the assignments of lines 189-193 are made: all of them, or
\* those before the first field the document lacks (data[...] raises
\* KeyError there).
Assigned(data) ==
    LET lacking == {k \in DOMAIN LoadOrder : LoadOrder[k] \notin DOMAIN data}
    IN  IF lacking = {} THEN Len(LoadOrder)
        ELSE (CHOOSE k \in lacking : \A l \in lacking : k <= l) - 1

\* The model fields after load has read the document data into the model m.
Loaded(m, data) ==
    LET k == Assigned(data)
    IN  [n_pokemon            |-> IF k >= 5 THEN data.n_pokemon ELSE m.n_pokemon,
         pokemon_to_idx       |-> IF k >= 1 THEN data.pokemon_to_idx
                                  ELSE m.pokemon_to_idx,
         idx_to_pokemon       |-> IF k >= 2
                                  THEN [i \in {PyInt(s) : s \in DOMAIN data.idx_to_pokemon} |->
                                           data.idx_to_pokemon[JsonKey(i)]]
                                  ELSE m.idx_to_pokemon,
         co_occurrence_matrix |-> IF k >= 3 THEN FromList(data.co_occurrence_matrix)
                                  ELSE m.co_occurrence_matrix,
         similarity_matrix    |-> IF k >= 4 THEN FromList(data.similarity_matrix)
                                  ELSE m.similarity_matrix]

\* The model file: absent, not a JSON document, or a JSON object.
NoFile == [kind |-> "missing", data |-> << >>]

Garbage == [kind |-> "malformed", data |-> << >>]

JsonFile(data) == [kind |-> "json", data |-> data]

\* The document data without the field f.
Without(data, f) == [g \in (DOMAIN data) \ {f} |-> data[g]]

\* -------------------------------------------------------------------- inputs

\* The teams a training corpus is drawn from: the three groups of the
\* end-to-end scenario, a team that repeats a name, a larger team and a
\* team of one.
TeamPool ==
    << <<"A", "B", "C">>, <<"A", "B", "D">>, <<"B", "C", "D">>,
       <<"A", "A", "E">>, <<"C", "D", "E", "F">>, <<"F">> >>

\* The corpora: 1..MaxTeams teams of TeamPool (listed in pool order: the
\* build does not depend on the order of the teams).
Corpora ==
    UNION {{[k \in 1..n |-> TeamPool[pick[k]]] :
              pick \in {f \in [1..n -> DOMAIN TeamPool] :
                           \A k \in 1..(n - 1) : f[k] <= f[k + 1]}} :
           n \in 1..MaxTeams}

\* The input teams of the calls: known and unknown names, a repeated name,
\* and lengths other than 3.
InputTeams ==
    { <<"A", "X", "Y">>, <<"A", "B", "X">>, <<"A", "B", "C">>, <<"X", "Y", "X">>,
      <<"F", "A", "A">>, <<"E", "X", "Y">>,
      <<>>, <<"A", "B">>, <<"A", "B", "C", "D">>, <<"X", "Y", "X", "Y">> }

\* recommend's default top_k (5) among the values tried.
TopKs == {-1, 0, 1, 3, 5}

\* recommend's default candidate_pool_size (50) among the values tried.
PoolSizes == {-1, 0, 2, 3, 4, 50}

\* The input lists of the calls to get_recommendations: of any length, with
\* known, unknown and repeated names.
RecInputs ==
    { <<>>, <<"X">>, <<"A">>, <<"A", "B">>, <<"A", "X">>, <<"E", "F", "A">>,
      <<"A", "A", "B">> }

\* get_recommendations' default top_k (10) among the values tried.
RecTopKs == {0, 1, 2, 10}

\* The exclude lists tried (None is read as the empty list, line 82).
RecExcludes == { <<>>, <<"B">>, <<"C", "D">> }

\* The teams get_team_score is called on.
ScoredTeams ==
    { <<>>, <<"A">>, <<"X", "Y">>, <<"A", "X">>, <<"A", "B">>, <<"A", "B", "X">>,
      <<"A", "B", "C">>, <<"X", "C", "Y", "D", "E">>, <<"A", "A", "E">>,
      <<"C", "D", "E", "F", "A", "B">> }

\* The names and, with the default top_k (5), the counts get_similar_pokemon
\* is called on.
SimilarTo == {"A", "F", "X"}

SimilarTopKs == {-1, 0, 2, 5}

\* --------------------------------------------------------------------- state

VARIABLES
    teams,                  \* the training corpus handed to build_from_teams
    n_pokemon,              \* CollaborativeFilteringModel's five fields
    pokemon_to_idx,
    idx_to_pokemon,
    co_occurrence_matrix,
    similarity_matrix,
    op,                     \* the last call made, its arguments, and the
                            \* caller's input list as the call left it
    outcome,                \* "none", "returned" or the exception raised
    queried,                \* whether that call reached get_recommendations
    candidate_names,        \* recommend's candidate pool
    result,                 \* what the call returned
    warned,                 \* the names the call printed a warning for
    before,                 \* the model fields when the call was made
    pc,                     \* the line a build_from_teams in progress is at
    todo,                   \* the teams its loop has still to count
    prev_teams,             \* the corpus of the build before it
    observed,               \* the model fields as a concurrent reader last saw them
    disk,                   \* the model file
    saved                   \* the model fields when the file was last written by save

model == <<n_pokemon, pokemon_to_idx, idx_to_pokemon,
           co_occurrence_matrix, similarity_matrix>>

call == <<op, outcome, queried, candidate_names, result, warned, before>>

rebuild == <<pc, todo, prev_teams, observed>>

store == <<disk, saved>>

vars == <<teams, model, call, rebuild, store>>

\* The model object as the queries read it.
Self ==
    [n_pokemon            |-> n_pokemon,
     pokemon_to_idx       |-> pokemon_to_idx,
     idx_to_pokemon       |-> idx_to_pokemon,
     co_occurrence_matrix |-> co_occurrence_matrix,
     similarity_matrix    |-> similarity_matrix]

NoCall ==
    [name |-> "none", input_team |-> <<>>, top_k |-> 0, candidate_pool_size |-> 0,
     exclude |-> <<>>, input_left |-> <<>>]

\* The fields CollaborativeFilteringModel.__init__ sets.
NewModel ==
    [n_pokemon            |-> 0,
     pokemon_to_idx       |-> << >>,
     idx_to_pokemon       |-> << >>,
     co_occurrence_matrix |-> None,
     similarity_matrix    |-> None]

\* CollaborativeFilteringModel.__init__, and the corpus the application
\* will train on.
Init ==
    /\ teams \in Corpora
    /\ n_pokemon = 0
    /\ pokemon_to_idx = << >>
    /\ idx_to_pokemon = << >>
    /\ co_occurrence_matrix = None
    /\ similarity_matrix = None
    /\ op = NoCall
    /\ outcome = "none"
    /\ queried = FALSE
    /\ candidate_names = <<>>
    /\ result = <<>>
    /\ warned = <<>>
    /\ before = NewModel
    /\ pc = "idle"
    /\ todo = <<>>
    /\ prev_teams = <<>>
    /\ observed = Self
    /\ disk = NoFile
    /\ saved = NewModel

\* The caller holds no pending result: calls are made one at a time.
Idle == outcome = "none"

\* build_from_teams(teams), run to completion.
Build ==
    LET b == Built(teams)
    IN  /\ Idle
        /\ n_pokemon' = b.n_pokemon
        /\ pokemon_to_idx' = b.pokemon_to_idx
        /\ idx_to_pokemon' = b.idx_to_pokemon
        /\ co_occurrence_matrix' = b.co_occurrence_matrix
        /\ similarity_matrix' = b.similarity_matrix
        /\ op' = [NoCall EXCEPT !.name = "build_from_teams"]
        /\ outcome' = "returned"
        /\ queried' = FALSE
        /\ candidate_names' = <<>>
        /\ result' = <<>>
        /\ warned' = <<>>
        /\ before' = Self
        /\ UNCHANGED <<teams, rebuild, store>>

\* recommend(input_team, top_k, candidate_pool_size).
Recommend(input_team, top_k, candidate_pool_size) ==
    /\ Idle
    /\ op' = [name |-> "recommend", input_team |-> input_team, top_k |-> top_k,
              candidate_pool_size |-> candidate_pool_size, exclude |-> <<>>,
              input_left |-> IF ValidInput(input_team)
                             THEN InputLeft(input_team, input_team)
                             ELSE input_team]
    /\ before' = Self
    /\ IF ~ValidInput(input_team)
       THEN /\ outcome' = "ValueError"
            /\ queried' = FALSE
            /\ candidate_names' = <<>>
            /\ result' = <<>>
            /\ warned' = <<>>
            /\ UNCHANGED similarity_matrix
       ELSE \E candidates \in GetRecommendations(Self, input_team,
                                                 candidate_pool_size, input_team) :
            /\ outcome' = "returned"
            /\ queried' = TRUE
            /\ candidate_names' = NamesOf(candidates)
            /\ result' = RankTrios(Self, input_team, top_k, candidates)
            /\ warned' = Warnings(Self, input_team)
            /\ similarity_matrix' =
                  MatrixAfterAggregate(Self, InputIndices(Self, input_team))
    /\ UNCHANGED <<teams, n_pokemon, pokemon_to_idx, idx_to_pokemon,
                   co_occurrence_matrix, rebuild, store>>

RecommendAny ==
    \E input_team \in InputTeams, top_k \in TopKs, candidate_pool_size \in PoolSizes :
        Recommend(input_team, top_k, candidate_pool_size)

\* get_recommendations(input_pokemon, top_k, exclude), called on the model.
GetRecs(input_pokemon, top_k, exclude) ==
    /\ Idle
    /\ op' = [name |-> "get_recommendations", input_team |-> input_pokemon,
              top_k |-> top_k, candidate_pool_size |-> 0, exclude |-> exclude,
              input_left |-> InputLeft(input_pokemon, exclude)]
    /\ before' = Self
    /\ \E recommendations \in GetRecommendations(Self, input_pokemon, top_k, exclude) :
          result' = recommendations
    /\ outcome' = "returned"
    /\ queried' = TRUE
    /\ candidate_names' = <<>>
    /\ warned' = Warnings(Self, input_pokemon)
    /\ similarity_matrix' =
          MatrixAfterAggregate(Self, InputIndices(Self, input_pokemon))
    /\ UNCHANGED <<teams, n_pokemon, pokemon_to_idx, idx_to_pokemon,
                   co_occurrence_matrix, rebuild, store>>

GetRecsAny ==
    \E input_pokemon \in RecInputs, top_k \in RecTopKs, exclude \in RecExcludes :
        GetRecs(input_pokemon, top_k, exclude)

\* get_team_score(team), called on the model.
TeamScore(team) ==
    /\ Idle
    /\ op' = [NoCall EXCEPT !.name = "get_team_score", !.input_team = team,
                            !.input_left = team]
    /\ before' = Self
    /\ result' = get_team_score(Self, team)
    /\ outcome' = "returned"
    /\ queried' = FALSE
    /\ candidate_names' = <<>>
    /\ warned' = <<>>
    /\ UNCHANGED <<teams, model, rebuild, store>>

TeamScoreAny == \E team \in ScoredTeams : TeamScore(team)

\* get_similar_pokemon(pokemon, top_k), called on the model.
SimilarPokemon(pokemon, top_k) ==
    /\ Idle
    /\ op' = [NoCall EXCEPT !.name = "get_similar_pokemon",
                            !.input_team = <<pokemon>>, !.top_k = top_k,
                            !.input_left = <<pokemon>>]
    /\ before' = Self
    /\ \E similar \in GetSimilarPokemon(Self, pokemon, top_k) : result' = similar
    /\ outcome' = "returned"
    /\ queried' = FALSE
    /\ candidate_names' = <<>>
    /\ warned' = <<>>
    /\ UNCHANGED <<teams, model, rebuild, store>>

SimilarPokemonAny ==
    \E pokemon \in SimilarTo, top_k \in SimilarTopKs : SimilarPokemon(pokemon, top_k)

\* The caller is done with what the call returned (or raised) and drops it.
Discard ==
    /\ ~Idle
    /\ op' = NoCall
    /\ outcome' = "none"
    /\ queried' = FALSE
    /\ candidate_names' = <<>>
    /\ result' = <<>>
    /\ warned' = <<>>
    /\ before' = Self
    /\ UNCHANGED <<teams, model, rebuild, store>>

Next ==
    \/ Build
    \/ RecommendAny
    \/ GetRecsAny
    \/ TeamScoreAny
    \/ SimilarPokemonAny
    \/ Discard

Spec == Init /\ [][Next]_vars

\* ------------------------------------- a rebuild beside a concurrent reader

\* The corpora of a rebuild: the model built from one is rebuilt from another.
RebuildCorpora == {c \in Corpora : Len(c) <= 2}

\* A model built from prev_teams, about to be rebuilt from teams.
InitRebuild ==
    /\ prev_teams \in RebuildCorpora
    /\ teams \in RebuildCorpora
    /\ n_pokemon = Built(prev_teams).n_pokemon
    /\ pokemon_to_idx = Built(prev_teams).pokemon_to_idx
    /\ idx_to_pokemon = Built(prev_teams).idx_to_pokemon
    /\ co_occurrence_matrix = Built(prev_teams).co_occurrence_matrix
    /\ similarity_matrix = Built(prev_teams).similarity_matrix
    /\ op = NoCall
    /\ outcome = "none"
    /\ queried = FALSE
    /\ candidate_names = <<>>
    /\ result = <<>>
    /\ warned = <<>>
    /\ before = Built(prev_teams)
    /\ pc = "idle"
    /\ todo = <<>>
    /\ observed = Built(prev_teams)
    /\ disk = NoFile
    /\ saved = NewModel

\* Lines 32-33: self.n_pokemon = len(all_pokemon).
BuildCount ==
    /\ pc = "idle"
    /\ n_pokemon' = Len(AllPokemon(teams))
    /\ pc' = "maps"
    /\ UNCHANGED <<teams, pokemon_to_idx, idx_to_pokemon, co_occurrence_matrix,
                   similarity_matrix, call, todo, prev_teams, observed, store>>

\* Line 36: self.pokemon_to_idx = {...}.
BuildForward ==
    /\ pc = "maps"
    /\ pokemon_to_idx' = PokemonToIdx(AllPokemon(teams))
    /\ pc' = "reverse"
    /\ UNCHANGED <<teams, n_pokemon, idx_to_pokemon, co_occurrence_matrix,
                   similarity_matrix, call, todo, prev_teams, observed, store>>

\* Line 37: self.idx_to_pokemon = {...}.
BuildReverse ==
    /\ pc = "reverse"
    /\ idx_to_pokemon' = IdxToPokemon(pokemon_to_idx)
    /\ pc' = "zeros"
    /\ UNCHANGED <<teams, n_pokemon, pokemon_to_idx, co_occurrence_matrix,
                   similarity_matrix, call, todo, prev_teams, observed, store>>

\* Line 40: self.co_occurrence_matrix = np.zeros(...).
BuildZeros ==
    /\ pc = "zeros"
    /\ co_occurrence_matrix' = Zeros(n_pokemon)
    /\ todo' = teams
    /\ pc' = "count"
    /\ UNCHANGED <<teams, n_pokemon, pokemon_to_idx, idx_to_pokemon,
                   similarity_matrix, call, prev_teams, observed, store>>

\* Lines 42-48, one team: the matrix is incremented in place.
BuildTeam ==
    /\ pc = "count"
    /\ todo # <<>>
    /\ co_occurrence_matrix' = AddTeam(co_occurrence_matrix, Head(todo), pokemon_to_idx)
    /\ todo' = Tail(todo)
    /\ UNCHANGED <<teams, n_pokemon, pokemon_to_idx, idx_to_pokemon,
                   similarity_matrix, call, pc, prev_teams, observed, store>>

\* Lines 52-58: self.similarity_matrix = cosine_similarity(normalized_matrix).
BuildCosine ==
    /\ pc = "count"
    /\ todo = <<>>
    /\ similarity_matrix' = CosineSimilarity(Normalized(co_occurrence_matrix))
    /\ pc' = "fill"
    /\ UNCHANGED <<teams, n_pokemon, pokemon_to_idx, idx_to_pokemon,
                   co_occurrence_matrix, call, todo, prev_teams, observed, store>>

\* Line 61: np.fill_diagonal(self.similarity_matrix, 0), in place.
BuildFill ==
    /\ pc = "fill"
    /\ similarity_matrix' = FillDiagonal(similarity_matrix)
    /\ pc' = "done"
    /\ UNCHANGED <<teams, n_pokemon, pokemon_to_idx, idx_to_pokemon,
                   co_occurrence_matrix, call, todo, prev_teams, observed, store>>

\* A reader on another thread (get_recommendations, get_team_score or
\* recommend) reads the model's fields between two statements of the build.
Reader ==
    /\ observed' = Self
    /\ UNCHANGED <<teams, model, call, pc, todo, prev_teams, store>>

NextRebuild ==
    \/ BuildCount
    \/ BuildForward
    \/ BuildReverse
    \/ BuildZeros
    \/ BuildTeam
    \/ BuildCosine
    \/ BuildFill
    \/ Reader

SpecRebuild == InitRebuild /\ [][NextRebuild]_vars

\* ------------------------------------------------------- a larger catalog

\* Nineteen more names, each one seen with "B" once and with "C" a
\* different number of times, so that their similarities to "A" (seen with
\* "B" only) all differ.
BigNames ==
    <<"P01", "P02", "P03", "P04", "P05", "P06", "P07", "P08", "P09", "P10", "P11",
      "P12", "P13", "P14", "P15", "P16", "P17", "P18", "P19">>

RECURSIVE Repeat(_, _)
Repeat(x, n) == IF n <= 0 THEN <<>> ELSE <<x>> \o Repeat(x, n - 1)

\* [A, B], then for the first k names: [name, B] and, but for the first
\* name, a team of the name and as many entries "C" as there are names
\* before it.
RECURSIVE BigTeams(_)
BigTeams(k) ==
    IF k = 0 THEN << <<"A", "B">> >>
    ELSE BigTeams(k - 1) \o << <<BigNames[k], "B">> >>
            \o (IF k = 1 THEN <<>> ELSE << <<BigNames[k]>> \o Repeat("C", k - 1) >>)

\* A corpus of 22 names: an input with one of them leaves 21 candidates.
BigCorpus == BigTeams(Len(BigNames))

\* The calls made on it: small pools with every top_k, and recommend's
\* default pool size.
BigCalls ==
    ({ <<"A", "X", "Y">>, <<"A", "P01", "X">>, <<"P19", "P18", "A">>,
       <<"X", "Y", "X">>, <<"A", "P01">>, <<"A", "P01", "P02", "P03">> }
        \X TopKs \X {0, 2, 3, 4, 5})
    \cup { << <<"A", "X", "Y">>, 5, 50 >>, << <<"A", "P01", "X">>, 1, 50 >> }

InitBig ==
    /\ teams = BigCorpus
    /\ n_pokemon = 0
    /\ pokemon_to_idx = << >>
    /\ idx_to_pokemon = << >>
    /\ co_occurrence_matrix = None
    /\ similarity_matrix = None
    /\ op = NoCall
    /\ outcome = "none"
    /\ queried = FALSE
    /\ candidate_names = <<>>
    /\ result = <<>>
    /\ warned = <<>>
    /\ before = NewModel
    /\ pc = "idle"
    /\ todo = <<>>
    /\ prev_teams = <<>>
    /\ observed = Self
    /\ disk = NoFile
    /\ saved = NewModel

RecommendBig ==
    \E c \in BigCalls : Recommend(c[1], c[2], c[3])

\* The calls to get_recommendations made on it: the default top_k and one
\* that asks for more names than the catalog holds.
BigRecCalls ==
    { << <<"A">>, 10, <<>> >>, << <<"A">>, 30, <<>> >>, << <<"A", "X">>, 30, <<"P01">> >>,
      << <<"A">>, 0, <<>> >> }

GetRecsBig ==
    \E c \in BigRecCalls : GetRecs(c[1], c[2], c[3])

NextBig == Build \/ RecommendBig \/ GetRecsBig \/ Discard

SpecBig == InitBig /\ [][NextBig]_vars

\* ==================================================================== claims

IsRecommend == op.name = "recommend"

Catalog == DOMAIN pokemon_to_idx

\* The 3-combinations of the candidate pool, as triples of pool positions.
PoolTriples ==
    LET n == Len(candidate_names)
    IN  {t \in (1..n) \X (1..n) \X (1..n) : t[1] < t[2] /\ t[2] < t[3]}

\* The record recommend builds for the pool positions t.
TripleRec(t) ==
    Evaluate(Self, op.input_team,
             <<candidate_names[t[1]], candidate_names[t[2]], candidate_names[t[3]]>>)

\* The weighted score 0.7 * cf_score + 0.3 * team_cohesion, at scale 10 * Scale.
Weighted(rec) == 7 * rec.cf_score + 3 * rec.team_cohesion

\* t comes before u in the enumeration: the first differing pool position
\* is smaller.
LexLess(t, u) ==
    \/ t[1] < u[1]
    \/ t[1] = u[1] /\ t[2] < u[2]
    \/ t[1] = u[1] /\ t[2] = u[2] /\ t[3] < u[3]

\* C1: recommend raises ValueError exactly when the input team does not
\* have 3 entries: an input of length 3 always returns a list, any other
\* length raises before get_recommendations is called.
C1_ValidationIffNotThree ==
    IsRecommend =>
        /\ outcome \in {"returned", "ValueError"}
        /\ (outcome = "ValueError") <=> (Len(op.input_team) # 3)
        /\ (outcome = "ValueError") => (~queried /\ result = <<>>)
        /\ (outcome = "returned") => queried

C1_Witness ==
    /\ IsRecommend
    /\ n_pokemon > 0
    /\ Len(op.input_team) > 3
    /\ outcome = "ValueError"

\* C2: no name of the input team appears in the trio of any returned
\* Recommendation.
C2_NoInputNameInTrio ==
    IsRecommend =>
        \A k \in DOMAIN result :
            Range(result[k].trio) \cap Range(op.input_team) = {}

C2_Witness ==
    /\ IsRecommend
    /\ result # <<>>
    /\ Range(op.input_team) \subseteq Catalog

\* C5: with a 3-entry input, a candidate_pool_size below 3, or fewer than 3
\* catalog names left after exclusion, or no input name in the catalog (an
\* unbuilt model included), gives the empty list and no exception.
C5_SmallPoolGivesEmptyList ==
    ( /\ IsRecommend
      /\ Len(op.input_team) = 3
      /\ \/ op.candidate_pool_size < 3
         \/ Cardinality(Catalog \ Range(op.input_team)) < 3
         \/ Range(op.input_team) \cap Catalog = {} )
    => (outcome = "returned" /\ result = <<>>)

C5_Witness ==
    /\ IsRecommend
    /\ Len(op.input_team) = 3
    /\ op.candidate_pool_size = 2
    /\ Len(candidate_names) = 2
    /\ Cardinality(Catalog \ Range(op.input_team)) >= 3
    /\ outcome = "returned"
    /\ result = <<>>

\* C6: for top_k >= 0 the returned list is the first top_k of all
\* 3-combinations of the candidate pool in descending composite order, equal
\* composites keeping the enumeration order: the k-th returned record is the
\* combination that exactly k-1 combinations rank before.
C6_TopKOfStableDescendingOrder ==
    (IsRecommend /\ outcome = "returned" /\ op.top_k >= 0) =>
        LET RanksBefore(u, t) ==
                \/ Weighted(TripleRec(u)) > Weighted(TripleRec(t))
                \/ /\ Weighted(TripleRec(u)) = Weighted(TripleRec(t))
                   /\ LexLess(u, t)
        IN  /\ Len(result) = Min(op.top_k, Cardinality(PoolTriples))
            /\ \A k \in DOMAIN result :
                  \E t \in PoolTriples :
                      /\ result[k] = TripleRec(t)
                      /\ Cardinality({u \in PoolTriples : RanksBefore(u, t)}) = k - 1

\* A truncated list whose first two records tie on the composite score while
\* a lower one follows.
C6_Witness ==
    /\ IsRecommend
    /\ op.top_k = 3
    /\ Len(result) = 3
    /\ Cardinality(PoolTriples) > 3
    /\ Weighted(result[1]) = Weighted(result[2])
    /\ Weighted(result[2]) > Weighted(result[3])

\* C7: a returned Recommendation holds trio, cf_score and team_cohesion
\* only; its composite_score, read from the record, is 0.7 * cf_score +
\* 0.3 * team_cohesion, and it is the key the returned list is ordered by.
C7_CompositeIsWeightedSum ==
    IsRecommend =>
        /\ \A k \in DOMAIN result :
              /\ DOMAIN result[k] = {"trio", "cf_score", "team_cohesion"}
              /\ composite_score(result[k])
                    = 7 * result[k].cf_score + 3 * result[k].team_cohesion
        /\ \A k \in 1..(Len(result) - 1) :
              7 * result[k].cf_score + 3 * result[k].team_cohesion
                 >= 7 * result[k + 1].cf_score + 3 * result[k + 1].team_cohesion

C7_Witness ==
    /\ IsRecommend
    /\ Len(result) >= 2
    /\ result[1].cf_score # result[1].team_cohesion
    /\ result[1].cf_score > 0
    /\ result[1].team_cohesion > 0
    /\ Weighted(result[1]) > Weighted(result[2])

\* The model is the one build_from_teams leaves for the corpus teams.
IsBuilt == n_pokemon > 0

\* How many entries of team are the name p.
Count(team, p) == Cardinality({k \in DOMAIN team : team[k] = p})

\* The corpus of the end-to-end scenario.
Scenario == << <<"A", "B", "C">>, <<"A", "B", "D">>, <<"B", "C", "D">> >>

Cell(p, q) == co_occurrence_matrix[pokemon_to_idx[p]][pokemon_to_idx[q]]

Sim(p, q) == similarity_matrix[pokemon_to_idx[p]][pokemon_to_idx[q]]

\* C8 as stated: after a build, for distinct catalog names the co-occurrence
\* cell is the number of training groups holding both names, and a group of
\* size M adds M*(M-1) in total.
C8_CellCountsGroups ==
    IsBuilt =>
        /\ \A p, q \in Catalog :
              p # q => Cell(p, q) = Cardinality({t \in DOMAIN teams :
                                         p \in Range(teams[t]) /\ q \in Range(teams[t])})
        /\ SumSeq([i \in 1..n_pokemon |->
                      SumFn(co_occurrence_matrix[i - 1], 0, n_pokemon - 1)])
              = SumSeq([t \in DOMAIN teams |-> Len(teams[t]) * (Len(teams[t]) - 1)])

\* C8 amended: the cell of distinct names p and q is the number of pairs of
\* positions of one group that hold p and q (the product of their numbers of
\* entries, summed over the groups), which is the number of groups holding
\* both when no group repeats a name; the matrix is symmetric with a zero
\* diagonal; a group of M entries adds M*M minus the squares of its names'
\* numbers of entries, M*(M-1) when its names are distinct; the scenario
\* corpus gives (A,B) = 2, (A,C) = 1, (B,C) = 2.
C8_CellCountsPositionPairs ==
    IsBuilt =>
        /\ \A p, q \in Catalog :
              /\ p # q =>
                    Cell(p, q) = SumSeq([t \in DOMAIN teams |->
                                            Count(teams[t], p) * Count(teams[t], q)])
              /\ Cell(p, q) = Cell(q, p)
              /\ Cell(p, p) = 0
        /\ (\A t \in DOMAIN teams : Cardinality(Range(teams[t])) = Len(teams[t])) =>
              \A p, q \in Catalog :
                 p # q => Cell(p, q) = Cardinality({t \in DOMAIN teams :
                                            p \in Range(teams[t]) /\ q \in Range(teams[t])})
        /\ SumSeq([i \in 1..n_pokemon |->
                      SumFn(co_occurrence_matrix[i - 1], 0, n_pokemon - 1)])
              = SumSeq([t \in DOMAIN teams |->
                          Len(teams[t]) * Len(teams[t])
                            - SumSeq([k \in DOMAIN teams[t] |->
                                         Count(teams[t], teams[t][k])])])
        /\ teams = Scenario =>
              Cell("A", "B") = 2 /\ Cell("A", "C") = 1 /\ Cell("B", "C") = 2

\* A built corpus that holds a group with a repeated name beside groups
\* without one.
C8_Witness ==
    /\ IsBuilt
    /\ \E t \in DOMAIN teams : Cardinality(Range(teams[t])) < Len(teams[t])
    /\ \E t \in DOMAIN teams : Cardinality(Range(teams[t])) = Len(teams[t])
                                  /\ Len(teams[t]) > 2
    /\ \E p, q \in Catalog : p # q /\ Cell(p, q) >= 2

\* The call of the end-to-end scenario on the model built from Scenario.
ScenarioCall ==
    /\ teams = Scenario
    /\ IsBuilt
    /\ IsRecommend
    /\ op.input_team = <<"A", "X", "Y">>
    /\ op.top_k = 1
    /\ op.candidate_pool_size = 3

\* C9 as stated: on the scenario model B has the highest similarity to A
\* among B, C and D, the pool conditioned on [A, X, Y] starts with B, and
\* the first returned trio holds B.
C9_BRankedFirst ==
    ScenarioCall =>
        /\ Sim("A", "B") > Sim("A", "C")
        /\ Sim("A", "B") > Sim("A", "D")
        /\ candidate_names[1] = "B"
        /\ Len(result) = 1
        /\ "B" \in Range(result[1].trio)

\* C9 amended: on the scenario model B has the highest co-occurrence with A
\* but the lowest similarity to A among B, C and D, the pool conditioned on
\* [A, X, Y] holds C, D and B with B last, and the one returned trio is that
\* pool, so it holds B.
C9_BRankedLast ==
    ScenarioCall =>
        /\ Cell("A", "B") > Cell("A", "C")
        /\ Cell("A", "B") > Cell("A", "D")
        /\ Sim("A", "B") < Sim("A", "C")
        /\ Sim("A", "B") < Sim("A", "D")
        /\ Len(candidate_names) = 3
        /\ candidate_names[3] = "B"
        /\ Range(candidate_names) = {"B", "C", "D"}
        /\ Len(result) = 1
        /\ result[1].trio = candidate_names

C9_Witness ==
    /\ ScenarioCall
    /\ outcome = "returned"
    /\ Len(result) = 1

\* C10: after a build every diagonal entry of the similarity matrix is 0,
\* also for a name whose co-occurrence row is all zeros.
C10_ZeroDiagonal ==
    IsBuilt => \A i \in 0..(n_pokemon - 1) : similarity_matrix[i][i] = 0

\* A built model with an all-zero co-occurrence row and a similar pair.
C10_Witness ==
    /\ IsBuilt
    /\ op.name = "build_from_teams"
    /\ \E i \in 0..(n_pokemon - 1) :
          \A j \in 0..(n_pokemon - 1) : co_occurrence_matrix[i][j] = 0
    /\ \E i, j \in 0..(n_pokemon - 1) : similarity_matrix[i][j] > 0

\* The largest candidate pool the specification lets the trio search run on.
PoolBound == 20

\* C3: a reader running beside build_from_teams on a built model sees the
\* five fields of one build, all of the model before the rebuild or all of
\* the model after it, and a similarity matrix with a zero diagonal.
C3_ReaderSeesOneBuild ==
    /\ \/ observed = Built(prev_teams)
       \/ observed = Built(teams)
    /\ \A i \in DOMAIN observed.similarity_matrix :
          observed.similarity_matrix[i][i] = 0

\* C4: recommend never enumerates the 3-combinations of a candidate pool
\* larger than PoolBound, whatever candidate_pool_size it is called with.
C4_PoolWithinBound ==
    (IsRecommend /\ outcome = "returned") => Len(candidate_names) <= PoolBound


\* C11: after a build the similarity matrix is symmetric:
\* similarity[i][j] = similarity[j][i] for all catalog indices i and j.
C11_SymmetricSimilarity ==
    IsBuilt =>
        \A i, j \in 0..(n_pokemon - 1) :
            similarity_matrix[i][j] = similarity_matrix[j][i]

\* A built model whose row-normalised counts are not symmetric (two names
\* with different row sums) while the two names are similar.
C11_Witness ==
    /\ IsBuilt
    /\ op.name = "build_from_teams"
    /\ \E i, j \in 0..(n_pokemon - 1) :
          /\ i # j
          /\ similarity_matrix[i][j] > 0
          /\ co_occurrence_matrix[i][j] > 0
          /\ RowSums(co_occurrence_matrix)[i] # RowSums(co_occurrence_matrix)[j]

\* ------------------------------------------------ the model file: save, load

\* The corpora the stored models are trained on: the single teams.
StoreCorpora == {c \in Corpora : Len(c) = 1}

\* A new model object beside a model file that is absent or was saved by an
\* earlier run, which trained on prev_teams.
InitStore ==
    /\ teams \in StoreCorpora
    /\ prev_teams \in StoreCorpora
    /\ n_pokemon = 0
    /\ pokemon_to_idx = << >>
    /\ idx_to_pokemon = << >>
    /\ co_occurrence_matrix = None
    /\ similarity_matrix = None
    /\ op = NoCall
    /\ outcome = "none"
    /\ queried = FALSE
    /\ candidate_names = <<>>
    /\ result = <<>>
    /\ warned = <<>>
    /\ before = NewModel
    /\ pc = "idle"
    /\ todo = <<>>
    /\ observed = NewModel
    /\ \/ disk = NoFile /\ saved = NewModel
       \/ disk = JsonFile(JsonDocument(Built(prev_teams))) /\ saved = Built(prev_teams)

\* save(path): tolist() of a matrix that is still None raises
\* AttributeError before the file is opened.
Save ==
    /\ Idle
    /\ op' = [NoCall EXCEPT !.name = "save"]
    /\ before' = Self
    /\ IF co_occurrence_matrix = None \/ similarity_matrix = None
       THEN /\ outcome' = "AttributeError"
            /\ UNCHANGED store
       ELSE /\ outcome' = "returned"
            /\ disk' = JsonFile(JsonDocument(Self))
            /\ saved' = Self
    /\ queried' = FALSE
    /\ candidate_names' = <<>>
    /\ result' = <<>>
    /\ warned' = <<>>
    /\ UNCHANGED <<teams, model, rebuild>>

\* load(path): open raises for a missing file, json.load for a file that is
\* not a JSON document; then the fields are assigned one by one.
Load ==
    /\ Idle
    /\ op' = [NoCall EXCEPT !.name = "load"]
    /\ before' = Self
    /\ IF disk.kind = "missing"
       THEN outcome' = "FileNotFoundError" /\ UNCHANGED model
       ELSE IF disk.kind = "malformed"
       THEN outcome' = "JSONDecodeError" /\ UNCHANGED model
       ELSE LET l == Loaded(Self, disk.data)
            IN  /\ outcome' = IF Assigned(disk.data) < Len(LoadOrder)
                              THEN "KeyError" ELSE "returned"
                /\ n_pokemon' = l.n_pokemon
                /\ pokemon_to_idx' = l.pokemon_to_idx
                /\ idx_to_pokemon' = l.idx_to_pokemon
                /\ co_occurrence_matrix' = l.co_occurrence_matrix
                /\ similarity_matrix' = l.similarity_matrix
    /\ queried' = FALSE
    /\ candidate_names' = <<>>
    /\ result' = <<>>
    /\ warned' = <<>>
    /\ UNCHANGED <<teams, rebuild, store>>

\* model = CollaborativeFilteringModel(): the caller goes on with a new
\* model object.
NewInstance ==
    /\ Idle
    /\ Self # NewModel
    /\ n_pokemon' = 0
    /\ pokemon_to_idx' = << >>
    /\ idx_to_pokemon' = << >>
    /\ co_occurrence_matrix' = None
    /\ similarity_matrix' = None
    /\ before' = NewModel
    /\ UNCHANGED <<teams, op, outcome, queried, candidate_names, result, warned,
                   rebuild, store>>

\* The file is changed from outside the program: removed, overwritten with
\* text that is not JSON, or left as a document that lacks one field.
Damage ==
    /\ Idle
    /\ disk.kind = "json"
    /\ DOMAIN disk.data = Range(LoadOrder)
    /\ \/ disk' = NoFile
       \/ disk' = Garbage
       \/ \E f \in Range(LoadOrder) : disk' = JsonFile(Without(disk.data, f))
    /\ UNCHANGED <<teams, model, call, rebuild, saved>>

NextStore ==
    \/ Build
    \/ Save
    \/ Load
    \/ NewInstance
    \/ Damage
    \/ Discard

SpecStore == InitStore /\ [][NextStore]_vars

\* The file is what save wrote for the model fields saved.
FileIsSaved == disk = JsonFile(JsonDocument(saved))

\* C12: load of a file that save wrote for a built model gives the saved
\* model back: the two maps, n_pokemon and both matrices are equal to the
\* saved ones, the keys of idx_to_pokemon are the indices again, and
\* idx_to_pokemon[pokemon_to_idx[p]] = p for every catalog name p.
C12_SaveLoadRoundTrip ==
    ( /\ op.name = "load"
      /\ outcome = "returned"
      /\ FileIsSaved
      /\ saved \in {Built(teams), Built(prev_teams)} )
    => /\ n_pokemon = saved.n_pokemon
       /\ pokemon_to_idx = saved.pokemon_to_idx
       /\ idx_to_pokemon = saved.idx_to_pokemon
       /\ co_occurrence_matrix = saved.co_occurrence_matrix
       /\ similarity_matrix = saved.similarity_matrix
       /\ DOMAIN idx_to_pokemon = 0..(n_pokemon - 1)
       /\ \A p \in DOMAIN pokemon_to_idx : idx_to_pokemon[pokemon_to_idx[p]] = p

\* A file saved from a model built in this run, loaded into a new model
\* object: several names, similarities that are not whole numbers.
C12_Witness ==
    /\ op.name = "load"
    /\ outcome = "returned"
    /\ before = NewModel
    /\ FileIsSaved
    /\ saved = Built(teams)
    /\ Self = saved
    /\ n_pokemon >= 3
    /\ \E i, j \in 0..(n_pokemon - 1) : similarity_matrix[i][j] % 10 # 0

IsTeamScore == op.name = "get_team_score"

\* The positions of the team given to get_team_score that hold a catalog name.
Resolved == {k \in DOMAIN op.input_team : op.input_team[k] \in Catalog}

\* C13: get_team_score returns exactly 0 when fewer than 2 members of the
\* team are in the catalog, and otherwise the sum of similarity over the
\* unordered pairs of resolved members divided by the number of those pairs;
\* unresolved members count neither in the sum nor in the divisor.
C13_CohesionIsMeanOverResolvedPairs ==
    IsTeamScore =>
        LET pairs == {pr \in Resolved \X Resolved : pr[1] < pr[2]}
            total == SumSeq([k \in DOMAIN op.input_team |->
                        SumSeq([l \in DOMAIN op.input_team |->
                            IF <<k, l>> \in pairs
                            THEN Sim(op.input_team[k], op.input_team[l])
                            ELSE 0])])
        IN  /\ outcome = "returned"
            /\ Cardinality(Resolved) < 2 => result = 0
            /\ Cardinality(Resolved) >= 2 => result = total \div Cardinality(pairs)

\* A team with unresolved members between resolved ones and a cohesion
\* above 0.
C13_Witness ==
    /\ IsTeamScore
    /\ IsBuilt
    /\ Cardinality(Resolved) >= 3
    /\ Cardinality(Resolved) < Len(op.input_team)
    /\ result > 0

\* similarity_of(a, b): the matrix entry of two names, 0 when either is
\* not in the catalog.
SimilarityOf(a, b) == IF a \in Catalog /\ b \in Catalog THEN Sim(a, b) ELSE 0

\* The positions of recommend's input team that hold a catalog name.
ResolvedInputs == {k \in DOMAIN op.input_team : op.input_team[k] \in Catalog}

\* C14 as stated: cf_score is the mean over the 3 candidates of the mean
\* over the 3 input members of similarity_of, an input member outside the
\* catalog counting as 0 in a divisor of 3.
C14_CfScoreDividesByThree ==
    IsRecommend =>
        \A r \in DOMAIN result :
            result[r].cf_score =
                SumSeq([c \in 1..3 |->
                    SumSeq([k \in 1..3 |->
                        SimilarityOf(result[r].trio[c], op.input_team[k])]) \div 3])
                  \div 3

\* C14 amended: cf_score is the mean over the 3 candidates of the mean of
\* the similarity to the input members that are in the catalog; a member
\* outside the catalog is skipped and does not count in the divisor.
C14_CfScoreDividesByResolved ==
    IsRecommend =>
        \A r \in DOMAIN result :
            /\ ResolvedInputs # {}
            /\ Range(result[r].trio) \subseteq Catalog
            /\ result[r].cf_score =
                  SumSeq([c \in 1..3 |->
                      SumSeq([k \in 1..3 |->
                          IF k \in ResolvedInputs
                          THEN Sim(result[r].trio[c], op.input_team[k])
                          ELSE 0]) \div Cardinality(ResolvedInputs)])
                    \div 3

\* A returned record with a positive cf_score for an input of which one
\* member only is in the catalog.
C14_Witness ==
    /\ IsRecommend
    /\ result # <<>>
    /\ Cardinality(ResolvedInputs) = 1
    /\ result[1].cf_score > 0

IsGetRecs == op.name = "get_recommendations"

\* C15: get_recommendations does not raise on an input name that is not in
\* the catalog: it prints a warning for it, leaves it out of the scores,
\* and scores a catalog item by the sum of its similarity to the resolved
\* inputs divided by their number; with no resolved input it returns [].
C15_UnresolvedInputsSkipped ==
    IsGetRecs =>
        /\ outcome = "returned"
        /\ warned = SelectSeq(op.input_team, LAMBDA p : p \notin Catalog)
        /\ Resolved = {} => result = <<>>
        /\ \A r \in DOMAIN result :
              /\ Resolved # {}
              /\ result[r][1] \in Catalog
              /\ result[r][2] =
                    SumSeq([k \in DOMAIN op.input_team |->
                               IF k \in Resolved
                               THEN Sim(op.input_team[k], result[r][1])
                               ELSE 0])
                      \div Cardinality(Resolved)

\* A call with a resolved input beside an unresolved one, and a returned
\* score above 0.
C15_Witness ==
    /\ IsGetRecs
    /\ warned # <<>>
    /\ Resolved # {}
    /\ result # <<>>
    /\ result[1][2] > 0


\* C16: the list get_recommendations returns is in descending score order
\* and two names of equal score come in ascending catalog-index order.
C16_TiesInIndexOrder ==
    IsGetRecs =>
        \A r, q \in DOMAIN result :
            r < q =>
                /\ result[r][2] >= result[q][2]
                /\ result[r][2] = result[q][2] =>
                      pokemon_to_idx[result[r][1]] < pokemon_to_idx[result[q][1]]

\* C17: for top_k >= 0 get_recommendations returns at most top_k entries,
\* none of them a name of the input list or of the exclude list, and, when
\* an input resolves, exactly min(top_k, number of catalog names outside
\* both lists) entries.
C17_AtMostTopK ==
    (IsGetRecs /\ op.top_k >= 0) =>
        LET barred == Range(op.input_team) \cup Range(op.exclude)
        IN  /\ Len(result) <= op.top_k
            /\ \A r \in DOMAIN result : result[r][1] \notin barred
            /\ Resolved # {} =>
                  Len(result) = Min(op.top_k, Cardinality(Catalog \ barred))

\* The names of the query operations.
Queries == {"get_recommendations", "get_team_score", "get_similar_pokemon", "recommend"}

\* C18: every call of a query (get_recommendations, get_team_score,
\* get_similar_pokemon, recommend) leaves the two maps, n_pokemon and both
\* matrices exactly as they were, so that after any sequence of queries the
\* model is the one the last build left, and leaves the caller's input list
\* as it was.
C18_QueriesLeaveModel ==
    [][ (op'.name \in Queries /\ op' # op) =>
            /\ model' = model
            /\ before' = Self
            /\ op'.input_left = op'.input_team ]_vars

\* A get_recommendations call that averages the rows of several inputs of a
\* built model and excludes names.
C18_Witness ==
    /\ IsGetRecs
    /\ IsBuilt
    /\ Cardinality(Resolved) >= 2
    /\ op.exclude # <<>>
    /\ result # <<>>
    /\ Self = before

\* C19: a load that fails (no file, a file that is not JSON, a document
\* that lacks one of the five fields) raises an error and leaves the two
\* maps, n_pokemon and both matrices as they were before the call.
C19_FailedLoadLeavesModel ==
    (op.name = "load" /\ outcome # "returned") =>
        /\ outcome \in {"FileNotFoundError", "JSONDecodeError", "KeyError"}
        /\ Self = before
====
